---- MODULE Spec2Model ----
(***************************************************************************)
(* Sliding-window feature engine of predIDR (src/src/features.py).         *)
(*                                                                         *)
(* Every function of the module is pure; a behaviour is one call of one    *)
(* function: the initial state holds the function called and its           *)
(* arguments (pc = "call"), and the function's action records what it      *)
(* returned or raised (pc = "done").  Python values are modelled as        *)
(* follows:                                                                *)
(*   - a str is a sequence of one-character strings;                       *)
(*   - an int is an Int;                                                   *)
(*   - a float produced by a true division is the exact rational           *)
(*     <<numerator, denominator>> in lowest terms;                         *)
(*   - a call either returns (kind = "ok") or raises (kind = the name of   *)
(*     the Python exception class).                                        *)
(***************************************************************************)
EXTENDS Integers, Sequences, FiniteSets, TLC

VARIABLES pc, op, seq, pos, window_size, X, content_func, features, result, calls

vars == <<pc, op, seq, pos, window_size, X, content_func, features, result, calls>>

args == <<op, seq, pos, window_size, X, content_func, features>>

(***************************************************************************)
(* Bounds of the explored inputs.                                          *)
(***************************************************************************)
\* longest sequence passed to the window / counting / scoring functions
MaxLen == 4
\* longest sequence passed to get_features
MaxFeatLen == 2
\* largest window size tried (sizes range over -MaxWin .. MaxWin)
MaxWin == 5
\* longest symbol collection X
MaxX == 2

\* symbols of the explored sequences: A (nonpolar), T (polar),
\* F (aromatic), B (in neither scoring table)
Alphabet == {"A", "T", "F", "B"}

RECURSIVE SeqsOfLen(_, _)
SeqsOfLen(S, n) ==
    IF n = 0 THEN {<<>>}
    ELSE {Append(s, e) : s \in SeqsOfLen(S, n - 1), e \in S}

SeqsUpTo(S, n) == UNION {SeqsOfLen(S, k) : k \in 0..n}

Range(s) == {s[i] : i \in DOMAIN s}

Min(a, b) == IF a < b THEN a ELSE b
Max(a, b) == IF a > b THEN a ELSE b

(***************************************************************************)
(* Python semantics used by the code.                                      *)
(***************************************************************************)
Ok(v) == [kind |-> "ok", value |-> v, msg |-> ""]
Raise(k, m) == [kind |-> k, value |-> <<>>, msg |-> m]

\* s[lower:upper] : a negative index counts from the end, both indices are
\* then clamped to [0, len(s)], and an empty range gives the empty sequence
PySlice(s, lower, upper) ==
    LET n == Len(s)
        lo == IF lower < 0 THEN Max(lower + n, 0) ELSE Min(lower, n)
        hi == IF upper < 0 THEN Max(upper + n, 0) ELSE Min(upper, n)
    IN  IF lo >= hi THEN <<>> ELSE SubSeq(s, lo + 1, hi)

RECURSIVE GCD(_, _)
GCD(a, b) == IF b = 0 THEN a ELSE GCD(b, a % b)

Abs(a) == IF a < 0 THEN -a ELSE a

\* the value of n / d (d # 0) in lowest terms, with a positive denominator
Rat(n, d) ==
    LET g == GCD(Abs(n), Abs(d))
        sign == IF d < 0 THEN -1 ELSE 1
    IN  <<(sign * n) \div g, (sign * d) \div g>>

\* a / b on numbers: a is an int or a rational, b is an int
TrueDiv(a, b) ==
    IF b = 0 THEN Raise("ZeroDivisionError", "division by zero")
    ELSE Ok(Rat(a[1], a[2] * b))

\* sym in X, for X a str or a list
In(sym, Xs) == \E j \in DOMAIN Xs : Xs[j] = sym

(***************************************************************************)
(* get_window                                                              *)
(***************************************************************************)
\* get_window without the clamp of the lower bound to 0
get_window_no_lower_clamp(s, p, ws) ==
    IF p < 0 \/ p > Len(s) - 1
    THEN Raise("ValueError", "Pos is outside the bounds of seq.")
    ELSE IF ws % 2 = 0
    THEN Raise("ValueError", "Size is even.")
    ELSE LET delta == (ws - 1) \div 2
             lower == p - delta
             upper0 == p + delta + 1
             upper == IF upper0 > Len(s) THEN Len(s) ELSE upper0
         IN  Ok(PySlice(s, lower, upper))

\* get_window with the half-width rounded up: delta = (window_size + 1) // 2
get_window_delta_rounded_up(s, p, ws) ==
    IF p < 0 \/ p > Len(s) - 1
    THEN Raise("ValueError", "Pos is outside the bounds of seq.")
    ELSE IF ws % 2 = 0
    THEN Raise("ValueError", "Size is even.")
    ELSE LET delta == (ws + 1) \div 2
             lower0 == p - delta
             lower == IF lower0 < 0 THEN 0 ELSE lower0
             upper0 == p + delta + 1
             upper == IF upper0 > Len(s) THEN Len(s) ELSE upper0
         IN  Ok(PySlice(s, lower, upper))

get_window(s, p, ws) ==
    IF p < 0 \/ p > Len(s) - 1
    THEN Raise("ValueError", "Pos is outside the bounds of seq.")
    ELSE IF ws % 2 = 0
    THEN Raise("ValueError", "Size is even.")
    ELSE LET delta == (ws - 1) \div 2
             lower0 == p - delta
             lower == IF lower0 < 0 THEN 0 ELSE lower0
             upper0 == p + delta + 1
             upper == IF upper0 > Len(s) THEN Len(s) ELSE upper0
         IN  Ok(PySlice(s, lower, upper))

(***************************************************************************)
(* get_X_count                                                             *)
(***************************************************************************)
\* the counting loop testing each symbol against the first symbol of X only
RECURSIVE X_count_loop_first_symbol(_, _, _, _)
X_count_loop_first_symbol(s, Xs, k, X_count) ==
    IF k > Len(s) THEN X_count
    ELSE X_count_loop_first_symbol(s, Xs, k + 1,
            IF Xs # <<>> /\ s[k] = Xs[1] THEN X_count + 1 ELSE X_count)

RECURSIVE X_count_loop(_, _, _, _)
X_count_loop(s, Xs, k, X_count) ==
    IF k > Len(s) THEN X_count
    ELSE X_count_loop(s, Xs, k + 1,
                      IF In(s[k], Xs) THEN X_count + 1 ELSE X_count)

get_X_count(s, Xs) == X_count_loop(s, Xs, 1, 0)

(***************************************************************************)
(* get_X_fractions                                                         *)
(***************************************************************************)
\* the fractions loop dividing by window_size instead of len(window)
RECURSIVE X_fractions_loop_by_size(_, _, _, _, _)
X_fractions_loop_by_size(s, Xs, ws, i, X_fractions) ==
    IF i >= Len(s) THEN Ok(X_fractions)
    ELSE LET window == get_window(s, i, ws)
         IN  IF window.kind # "ok" THEN window
             ELSE LET X_count == get_X_count(window.value, Xs)
                      q == TrueDiv(<<X_count, 1>>, ws)
                  IN  IF q.kind # "ok" THEN q
                      ELSE X_fractions_loop_by_size(s, Xs, ws, i + 1,
                                                    Append(X_fractions, q.value))

RECURSIVE X_fractions_loop(_, _, _, _, _)
X_fractions_loop(s, Xs, ws, i, X_fractions) ==
    IF i >= Len(s) THEN Ok(X_fractions)
    ELSE LET window == get_window(s, i, ws)
         IN  IF window.kind # "ok" THEN window
             ELSE LET X_count == get_X_count(window.value, Xs)
                      q == TrueDiv(<<X_count, 1>>, Len(window.value))
                  IN  IF q.kind # "ok" THEN q
                      ELSE X_fractions_loop(s, Xs, ws, i + 1,
                                            Append(X_fractions, q.value))

get_X_fractions(s, Xs, ws) == X_fractions_loop(s, Xs, ws, 0, <<>>)

(***************************************************************************)
(* get_hydrophobicity, get_polarity                                        *)
(***************************************************************************)
\* the raw Kyte-Doolittle scale, in tenths
hydrophobicity_raw ==
    [I |-> 45, V |-> 42, L |-> 38, F |-> 28, C |-> 25,
     M |-> 19, A |-> 18, W |-> -9, G |-> -4, T |-> -7,
     S |-> -8, Y |-> -13, P |-> -16, H |-> -32, N |-> -35,
     D |-> -35, Q |-> -35, E |-> -35, K |-> -39, R |-> -45]

\* after the normalising loop: (raw + 4.5) / 9, as a numerator over 90
hydrophobicity_dict ==
    [key \in DOMAIN hydrophobicity_raw |-> hydrophobicity_raw[key] + 45]

\* hydrophobicity_dict.get(N, 0), as a numerator over 90
hydrophobicity_get(N) ==
    IF N \in DOMAIN hydrophobicity_dict THEN hydrophobicity_dict[N] ELSE 0

\* the polarity classes, in halves (2 is polar, 0 is nonpolar)
polarity_dict ==
    [I |-> 0, V |-> 0, L |-> 0, F |-> 0, C |-> 0, M |-> 0, A |-> 0,
     W |-> 0, G |-> 0, T |-> 2, S |-> 2, Y |-> 2, P |-> 0, H |-> 2,
     N |-> 2, D |-> 2, Q |-> 2, E |-> 2, K |-> 2, R |-> 2]

\* polarity_dict.get(N, 0.5), in halves
polarity_get(N) ==
    IF N \in DOMAIN polarity_dict THEN polarity_dict[N] ELSE 1

\* sum(list) of a list of ints
RECURSIVE Sum(_)
Sum(l) == IF l = <<>> THEN 0 ELSE l[1] + Sum(Tail(l))

get_hydrophobicity(s) ==
    LET seq_hydrophobicities == [k \in DOMAIN s |-> hydrophobicity_get(s[k])]
    IN  TrueDiv(<<Sum(seq_hydrophobicities), 90>>, Len(seq_hydrophobicities))

get_polarity(s) ==
    LET seq_polarities == [k \in DOMAIN s |-> polarity_get(s[k])]
    IN  TrueDiv(<<Sum(seq_polarities), 2>>, Len(seq_polarities))

\* the scoring functions that can be passed as content_func
ContentFuncs == {"get_hydrophobicity", "get_polarity"}

\* content_func(arg)
CallContentFunc(f, arg) ==
    IF f = "get_hydrophobicity" THEN get_hydrophobicity(arg)
    ELSE get_polarity(arg)

(***************************************************************************)
(* get_content_scores                                                      *)
(***************************************************************************)
RECURSIVE content_scores_loop(_, _, _, _, _)
content_scores_loop(s, f, ws, i, content_scores) ==
    IF i >= Len(s) THEN Ok(content_scores)
    ELSE LET window == get_window(s, i, ws)
         IN  IF window.kind # "ok" THEN window
             ELSE LET score == CallContentFunc(f, s)
                  IN  IF score.kind # "ok" THEN score
                      ELSE content_scores_loop(s, f, ws, i + 1,
                                               Append(content_scores, score.value))

get_content_scores(s, f, ws) == content_scores_loop(s, f, ws, 0, <<>>)

(***************************************************************************)
(* Feature functions and get_features                                      *)
(***************************************************************************)
\* A feature function is a value of one of three shapes: the two kinds of
\* lambda of the module's own catalog, and a caller-supplied function that
\* returns the list ret whatever it is called with.
ContentLambda(f) ==
    [kind |-> "content_scores", content_func |-> f, X |-> <<>>, ret |-> <<>>]
FractionsLambda(Xs) ==
    [kind |-> "X_fractions", content_func |-> "", X |-> Xs, ret |-> <<>>]
CallerFunction(l) ==
    [kind |-> "caller", content_func |-> "", X |-> <<>>, ret |-> l]

\* function(seq, window_size)
CallFeature(function, s, ws) ==
    IF function.kind = "content_scores"
    THEN get_content_scores(s, function.content_func, ws)
    ELSE IF function.kind = "X_fractions"
    THEN get_X_fractions(s, function.X, ws)
    ELSE Ok(function.ret)

\* the module-level catalog; a dict keeps its insertion order
features_dict ==
    << [label |-> "hydrophobicity_content",
        function |-> ContentLambda("get_hydrophobicity")],
       [label |-> "polarity_content",
        function |-> ContentLambda("get_polarity")],
       [label |-> "aromatic_content",
        function |-> FractionsLambda(<<"F", "Y", "W", "H">>)] >>

Labels(feats) == {feats[k].label : k \in DOMAIN feats}

\* first loop: label2idx[feature_label] = function(seq, window_size)
RECURSIVE label2idx_loop(_, _, _, _, _, _)
label2idx_loop(s, feats, ws, k, label2idx, log) ==
    IF k > Len(feats)
    THEN [kind |-> "ok", value |-> label2idx, msg |-> "", calls |-> log]
    ELSE LET r == CallFeature(feats[k].function, s, ws)
             log2 == Append(log, [label |-> feats[k].label,
                                  seq |-> s, window_size |-> ws])
         IN  IF r.kind # "ok"
             THEN [kind |-> r.kind, value |-> <<>>, msg |-> r.msg,
                   calls |-> log2]
             ELSE label2idx_loop(s, feats, ws, k + 1,
                    [l \in DOMAIN label2idx \cup {feats[k].label} |->
                        IF l = feats[k].label THEN r.value ELSE label2idx[l]],
                    log2)

\* the second loop stopping one position early: range(len(seq) - 1)
RECURSIVE idx2label_loop_short(_, _, _, _, _)
idx2label_loop_short(s, feature_labels, label2idx, i, idx2label) ==
    IF i >= Len(s) - 1 THEN Ok(idx2label)
    ELSE IF \E l \in feature_labels : i >= Len(label2idx[l])
    THEN Raise("IndexError", "list index out of range")
    ELSE idx2label_loop_short(s, feature_labels, label2idx, i + 1,
            Append(idx2label, [l \in feature_labels |-> label2idx[l][i + 1]]))

\* the second loop reading element 0 of every list at every position
RECURSIVE idx2label_loop_first_row(_, _, _, _, _)
idx2label_loop_first_row(s, feature_labels, label2idx, i, idx2label) ==
    IF i >= Len(s) THEN Ok(idx2label)
    ELSE IF \E l \in feature_labels : i >= Len(label2idx[l])
    THEN Raise("IndexError", "list index out of range")
    ELSE idx2label_loop_first_row(s, feature_labels, label2idx, i + 1,
            Append(idx2label, [l \in feature_labels |-> label2idx[l][1]]))

\* second loop: one dict per position; label2idx[feature_label][i] raises
\* IndexError when the list has no element i
RECURSIVE idx2label_loop(_, _, _, _, _)
idx2label_loop(s, feature_labels, label2idx, i, idx2label) ==
    IF i >= Len(s) THEN Ok(idx2label)
    ELSE IF \E l \in feature_labels : i >= Len(label2idx[l])
    THEN Raise("IndexError", "list index out of range")
    ELSE idx2label_loop(s, feature_labels, label2idx, i + 1,
            Append(idx2label, [l \in feature_labels |-> label2idx[l][i + 1]]))

get_features(s, feats, ws) ==
    LET first == label2idx_loop(s, feats, ws, 1, <<>>, <<>>)
    IN  IF first.kind # "ok" THEN first
        ELSE LET second == idx2label_loop(s, Labels(feats), first.value, 0, <<>>)
             IN  [kind |-> second.kind, value |-> second.value,
                  msg |-> second.msg, calls |-> first.calls]

(***************************************************************************)
(* The explored arguments.                                                 *)
(***************************************************************************)
Seqs == SeqsUpTo(Alphabet, MaxLen)
Positions == -1 .. MaxLen
WindowSizes == -MaxWin .. MaxWin
SymbolLists == SeqsUpTo(Alphabet, MaxX)

FeatSeqs == SeqsUpTo(Alphabet, MaxFeatLen)
FeatWindowSizes == {-1, 1, 2, 3}
\* the scores a caller-supplied feature function returns: 0.0 and 1.0
CallerScores == {<<0, 1>>, <<1, 1>>}
CallerLists == SeqsUpTo(CallerScores, MaxFeatLen + 1)
FeatureFunctions ==
    {ContentLambda(f) : f \in ContentFuncs}
        \cup {FractionsLambda(<<"F", "Y", "W", "H">>)}
        \cup {CallerFunction(l) : l \in CallerLists}
CatalogLabels == {"aromatic_content", "polarity_content"}
\* catalogs of at most two entries with distinct labels, and the module's own
Catalogs ==
    {<<>>, features_dict}
        \cup {<<[label |-> l, function |-> f]>> :
                l \in CatalogLabels, f \in FeatureFunctions}
        \cup {<<[label |-> l1, function |-> f1], [label |-> l2, function |-> f2]>> :
                <<l1, l2>> \in {ll \in CatalogLabels \X CatalogLabels : ll[1] # ll[2]},
                <<f1, f2>> \in FeatureFunctions \X FeatureFunctions}

(***************************************************************************)
(* The state machine: a call is drawn, then the called function runs.      *)
(***************************************************************************)
\* a call is drawn; the arguments it does not take keep their empty values
Init ==
    /\ pc = "call"
    /\ result = Ok(<<>>)
    /\ calls = <<>>
    /\ \/ /\ op = "get_window"
          /\ seq \in Seqs
          /\ pos \in Positions
          /\ window_size \in WindowSizes
          /\ X = <<>> /\ content_func = "" /\ features = <<>>
       \/ /\ op = "get_X_count"
          /\ seq \in Seqs
          /\ X \in SymbolLists
          /\ pos = 0 /\ window_size = 0 /\ content_func = "" /\ features = <<>>
       \/ /\ op = "get_X_fractions"
          /\ seq \in Seqs
          /\ X \in SymbolLists
          /\ window_size \in WindowSizes
          /\ pos = 0 /\ content_func = "" /\ features = <<>>
       \/ /\ op \in {"get_hydrophobicity", "get_polarity"}
          /\ seq \in Seqs
          /\ pos = 0 /\ window_size = 0 /\ X = <<>>
          /\ content_func = "" /\ features = <<>>
       \/ /\ op = "get_content_scores"
          /\ seq \in Seqs
          /\ content_func \in ContentFuncs
          /\ window_size \in WindowSizes
          /\ pos = 0 /\ X = <<>> /\ features = <<>>
       \/ /\ op = "get_features"
          /\ seq \in FeatSeqs
          /\ features \in Catalogs
          /\ window_size \in FeatWindowSizes
          /\ pos = 0 /\ X = <<>> /\ content_func = ""

GetWindow ==
    /\ pc = "call" /\ op = "get_window"
    /\ result' = get_window(seq, pos, window_size)
    /\ pc' = "done"
    /\ UNCHANGED <<args, calls>>

GetXCount ==
    /\ pc = "call" /\ op = "get_X_count"
    /\ result' = Ok(get_X_count(seq, X))
    /\ pc' = "done"
    /\ UNCHANGED <<args, calls>>

GetXFractions ==
    /\ pc = "call" /\ op = "get_X_fractions"
    /\ result' = get_X_fractions(seq, X, window_size)
    /\ pc' = "done"
    /\ UNCHANGED <<args, calls>>

GetHydrophobicity ==
    /\ pc = "call" /\ op = "get_hydrophobicity"
    /\ result' = get_hydrophobicity(seq)
    /\ pc' = "done"
    /\ UNCHANGED <<args, calls>>

GetPolarity ==
    /\ pc = "call" /\ op = "get_polarity"
    /\ result' = get_polarity(seq)
    /\ pc' = "done"
    /\ UNCHANGED <<args, calls>>

GetContentScores ==
    /\ pc = "call" /\ op = "get_content_scores"
    /\ result' = get_content_scores(seq, content_func, window_size)
    /\ pc' = "done"
    /\ UNCHANGED <<args, calls>>

GetFeatures ==
    /\ pc = "call" /\ op = "get_features"
    /\ LET r == get_features(seq, features, window_size)
       IN  /\ result' = [kind |-> r.kind, value |-> r.value, msg |-> r.msg]
           /\ calls' = r.calls
    /\ pc' = "done"
    /\ UNCHANGED args

Next ==
    \/ GetWindow
    \/ GetXCount
    \/ GetXFractions
    \/ GetHydrophobicity
    \/ GetPolarity
    \/ GetContentScores
    \/ GetFeatures

Spec == Init /\ [][Next]_vars

(***************************************************************************)
(* Properties.                                                             *)
(***************************************************************************)
Done(f) == pc = "done" /\ op = f

ValidPos == 0 <= pos /\ pos < Len(seq)
PositiveOdd(ws) == ws > 0 /\ ws % 2 = 1

\* a list of the symbols of S, each once
SetToSeq(S) ==
    CHOOSE sq \in SeqsOfLen(S, Cardinality(S)) : Range(sq) = S

\* the lists that hold the elements of Xs in another order
Reorderings(Xs) ==
    {[k \in DOMAIN Xs |-> Xs[p[k]]] :
        p \in {q \in [DOMAIN Xs -> DOMAIN Xs] :
                 \A a, b \in DOMAIN Xs : q[a] = q[b] => a = b}}

\* C1: for a valid pos and a positive odd window_size, get_window returns
\* exactly the symbols of seq from index max(0, pos - delta) to index
\* min(len(seq) - 1, pos + delta), both inclusive, delta = (window_size - 1) / 2.
C1_WindowIsClampedSpan ==
    (Done("get_window") /\ ValidPos /\ PositiveOdd(window_size)) =>
        LET delta == (window_size - 1) \div 2
            first == Max(0, pos - delta)
            last == Min(Len(seq) - 1, pos + delta)
        IN  /\ result.kind = "ok"
            /\ Len(result.value) = last - first + 1
            /\ \A k \in first .. last : result.value[k - first + 1] = seq[k + 1]

\* the clipped left half-window of the first position: two symbols for size 3
C1_Witness ==
    /\ Done("get_window")
    /\ seq = <<"A", "T", "F", "B">>
    /\ pos = 0
    /\ window_size = 3
    /\ result.kind = "ok"
    /\ result.value = <<"A", "T">>

\* C3: get_window returns a window exactly when pos is in bounds and
\* window_size is positive and odd; every other call fails.
C3_InvalidArgumentsFail ==
    Done("get_window") =>
        (result.kind = "ok" <=> (ValidPos /\ PositiveOdd(window_size)))

\* C8: for a valid pos and a positive odd window_size the window is at most
\* window_size long, and exactly window_size long when pos - delta >= 0 and
\* pos + delta < len(seq).
C8_WindowLength ==
    (Done("get_window") /\ ValidPos /\ PositiveOdd(window_size)) =>
        LET delta == (window_size - 1) \div 2
        IN  /\ result.kind = "ok"
            /\ Len(result.value) <= window_size
            /\ (pos - delta >= 0 /\ pos + delta < Len(seq))
                  => Len(result.value) = window_size

\* a window of size 3 that fits inside the sequence
C8_Witness ==
    /\ Done("get_window")
    /\ window_size = 3
    /\ pos - 1 >= 0
    /\ pos + 1 < Len(seq)
    /\ result.kind = "ok"
    /\ Len(result.value) = 3

\* C9: get_X_count is the number of positions whose symbol is in X, is the
\* same for every reordering of X, is 0 for the empty sequence, and the
\* counts for X and for its complement in the alphabet add up to len(seq).
C9_CountIsMembershipCount ==
    Done("get_X_count") =>
        /\ result.kind = "ok"
        /\ result.value = Cardinality({k \in DOMAIN seq : seq[k] \in Range(X)})
        /\ \A Y \in Reorderings(X) : get_X_count(seq, Y) = result.value
        /\ (seq = <<>> => result.value = 0)
        /\ result.value + get_X_count(seq, SetToSeq(Alphabet \ Range(X)))
              = Len(seq)

\* two distinct symbols in X, three of four positions counted
C9_Witness ==
    /\ Done("get_X_count")
    /\ seq = <<"A", "F", "B", "A">>
    /\ X = <<"F", "A">>
    /\ result.value = 3

\* C10: for a non-empty sequence and a positive odd window_size,
\* get_X_fractions returns len(seq) values; the i-th is
\* get_X_count(w, X) / len(w) for w = get_window(seq, i, window_size), w is
\* not empty, and the value lies in [0, 1].
C10_FractionsPerWindow ==
    (Done("get_X_fractions") /\ seq # <<>> /\ PositiveOdd(window_size)) =>
        /\ result.kind = "ok"
        /\ Len(result.value) = Len(seq)
        /\ \A i \in 0 .. Len(seq) - 1 :
              LET w == get_window(seq, i, window_size).value
                  c == get_X_count(w, X)
                  v == result.value[i + 1]
              IN  /\ Len(w) > 0
                  /\ 0 <= c /\ c <= Len(w)
                  /\ v[2] > 0
                  /\ v[1] * Len(w) = c * v[2]
                  /\ 0 <= v[1] /\ v[1] <= v[2]

\* one aromatic symbol at the left edge: 1/2, 1/3, then 0
C10_Witness ==
    /\ Done("get_X_fractions")
    /\ seq = <<"F", "A", "A", "A">>
    /\ X = <<"F">>
    /\ window_size = 3
    /\ result.kind = "ok"
    /\ result.value = << <<1, 2>>, <<1, 3>>, <<0, 1>>, <<0, 1>> >>

\* C2: for a positive odd window_size, the i-th score of get_content_scores
\* is content_func applied to the window at position i.
C2_ScoresArePerWindow ==
    (Done("get_content_scores") /\ PositiveOdd(window_size)) =>
        /\ result.kind = "ok"
        /\ Len(result.value) = Len(seq)
        /\ \A i \in 0 .. Len(seq) - 1 :
              LET w == get_window(seq, i, window_size).value
              IN  result.value[i + 1] = CallContentFunc(content_func, w).value

\* C7: a mean over the empty sequence fails with the EmptyInput error.
C7_EmptyInputIsChecked ==
    (pc = "done" /\ op \in {"get_hydrophobicity", "get_polarity"} /\ seq = <<>>)
        => result.kind = "EmptyInput"

\* what each feature function of the catalog returns for the call's arguments
Returned(k) == CallFeature(features[k].function, seq, window_size)

EveryFunctionReturns ==
    \A k \in DOMAIN features : Returned(k).kind = "ok"

\* C4: when a feature function returns a list whose length differs from
\* len(seq), get_features fails and returns no records.
C4_LengthMismatchFails ==
    (Done("get_features") /\ EveryFunctionReturns
        /\ \E k \in DOMAIN features : Len(Returned(k).value) # Len(seq))
        => result.kind # "ok"

\* C5: when every feature function returns len(seq) scores, get_features
\* returns len(seq) records and the keys of every record are the labels of
\* the catalog.
C5_OneRecordPerPosition ==
    (Done("get_features") /\ EveryFunctionReturns
        /\ \A k \in DOMAIN features : Len(Returned(k).value) = Len(seq))
        => /\ result.kind = "ok"
           /\ Len(result.value) = Len(seq)
           /\ \A i \in 1 .. Len(seq) :
                 DOMAIN result.value[i] = Labels(features)

\* the module's own catalog on a sequence of two symbols
C5_Witness ==
    /\ Done("get_features")
    /\ features = features_dict
    /\ Len(seq) = 2
    /\ window_size = 3
    /\ result.kind = "ok"
    /\ Len(result.value) = 2
    /\ DOMAIN result.value[2] =
          {"hydrophobicity_content", "polarity_content", "aromatic_content"}

\* C6: get_features calls every feature function of the catalog once, with
\* (seq, window_size), and the record of position i holds under each label
\* the i-th element of the list that label's function returned.
C6_CalledOnceAndTransposed ==
    Done("get_features") =>
        /\ \A c \in DOMAIN calls :
              /\ calls[c].seq = seq
              /\ calls[c].window_size = window_size
        /\ \A k \in DOMAIN features :
              Cardinality({c \in DOMAIN calls :
                             calls[c].label = features[k].label}) <= 1
        /\ EveryFunctionReturns =>
              \A k \in DOMAIN features :
                  Cardinality({c \in DOMAIN calls :
                                 calls[c].label = features[k].label}) = 1
        /\ result.kind = "ok" =>
              \A i \in 1 .. Len(seq) : \A k \in DOMAIN features :
                  result.value[i][features[k].label] = Returned(k).value[i]

\* two caller-supplied functions whose lists differ at both positions
C6_Witness ==
    /\ Done("get_features")
    /\ Len(features) = 2
    /\ Len(seq) = 2
    /\ features[1].function = CallerFunction(<< <<0, 1>>, <<1, 1>> >>)
    /\ features[2].function = CallerFunction(<< <<1, 1>>, <<0, 1>> >>)
    /\ result.kind = "ok"
    /\ Len(calls) = 2
    /\ result.value[2][features[1].label] = <<1, 1>>
    /\ result.value[2][features[2].label] = <<0, 1>>

====
